---- MODULE Spec2Model ----
(***************************************************************************)
(* A model of camera-rtsp-service (package camera_rtsp_service).           *)
(*                                                                         *)
(*   Spec / FairSpec : one invocation of the CLI: cmd_run from             *)
(*                     configuration to exit, RtspServer.start / stop,    *)
(*                     the HttpThread sidecars and the signal handler.    *)
(*   SpecConfig      : build_config, layer by layer, and RtspCfg's        *)
(*                     mount-path normalisation.                          *)
(*   SpecPipeline    : build_pipeline: encoder selection, bitrate         *)
(*                     resolution and the shape of the description.       *)
(*   SpecDiag        : the diagnostic commands preflight and dump-config, *)
(*                     with auto_select.                                   *)
(*   SpecProbe /     : preflight(), message by message, as cmd_run calls  *)
(*   FairSpecProbe     it: the first probe and the raw retry.             *)
(*                                                                         *)
(* The specifications share the module's variables; each one keeps the    *)
(* variables of the others at their idle values.                          *)
(***************************************************************************)
EXTENDS Integers, Sequences, FiniteSets, TLC

VARIABLES
    \* ---- cmd_run / RtspServer -------------------------------------------
    pc,           \* position of the main thread in main() / cmd_run / start
    args,         \* the parsed argparse namespace
    cfg,          \* the AppConfig fields cmd_run and RtspServer read
    probes,       \* the preflight() calls made so far, in order
    trace,        \* the startup phases completed so far, in order
    exitCode,     \* the process exit status, -1 while the process runs
    compiled,     \* build_pipeline has returned
    pipeline,     \* cmd_run's local `pipeline`
    printed,      \* the pipeline description was printed
    handlerSet,   \* signal.signal installed _sig for SIGINT / SIGTERM
    loop,         \* RtspServer.loop: none / idle / running / quit
    attach,       \* outcome of server.attach: none / ok / failed
    attachCount,  \* number of server.attach calls
    thr,          \* the two HttpThread sidecars
    hpc,          \* position of the signal handler (_sig -> srv.stop)
    signals,      \* signals delivered so far
    stopsDone,    \* srv.stop() calls that have returned
    stopInStart,  \* a stop() was issued after start() had begun
    afterStop,    \* the server state observed as each stop() returned
    log,          \* the warnings and errors logged so far
    \* ---- build_config ---------------------------------------------------
    bpc,          \* position inside build_config
    iniPath,      \* the ini_path argument: none / ok / missing
    iniLayer,     \* what the INI file sets
    envLayer,     \* what CAMRTSP_* environment variables set
    cliLayer,     \* what _collect_cli_overrides returned
    merged,       \* build_config's merged dict
    resolved,     \* the fields of the returned AppConfig
    \* ---- build_pipeline ------------------------------------------------
    ppc,          \* position inside build_pipeline
    enc,          \* the camera / encoding inputs of the bitrate resolution
    bitrate,      \* build_pipeline's local `bitrate`
    sel,          \* codec, hardware_priority, prefer_raw and the elements installed
    decision,     \* hw_encoder, use_h264, use_mjpeg_passthrough
    result,       \* the pipeline description build_pipeline returns
    \* ---- cmd_preflight / cmd_dump_config -------------------------------
    dpc,          \* position inside the diagnostic command
    dargs,        \* the command and what build_config does with args.config
    dcfg,         \* the fields of cfg the command reads
    devices,      \* what list_devices() returns
    dout,         \* the objects printed on stdout, in order
    dexit,        \* the process exit status, -1 while the command runs
    \* ---- preflight() ---------------------------------------------------
    qpc,          \* position inside preflight() and its caller
    qmjpeg,       \* the use_mjpeg argument of the current call
    elapsed,      \* time.time() - start, in polling intervals of 500 ms
    last,         \* the message the last timed_pop_filtered returned
    qok,          \* preflight's local `ok`
    qreason,      \* preflight's local `reason`
    trial,        \* the state of the trial pipeline of each call made
    qres          \* the (ok, reason) pairs returned so far

runVars == <<pc, args, cfg, probes, trace, exitCode, compiled, pipeline, printed,
             handlerSet, loop, attach, attachCount, thr, hpc, signals,
             stopsDone, stopInStart, afterStop, log>>
cfgVars == <<bpc, iniPath, iniLayer, envLayer, cliLayer, merged, resolved>>
pipeVars == <<ppc, enc, bitrate, sel, decision, result>>
diagVars == <<dpc, dargs, dcfg, devices, dout, dexit>>
probeVars == <<qpc, qmjpeg, elapsed, last, qok, qreason, trial, qres>>
vars == <<runVars, cfgVars, pipeVars, diagVars, probeVars>>

(***************************************************************************)
(* Bounds of the model.                                                    *)
(***************************************************************************)
\* Signals (SIGINT / SIGTERM) delivered to the process during one run.
MaxSignals == 2
\* Longest mount_path string a configuration layer supplies.
MaxLen == 4
\* Most comma-separated items in encoding.hardware_priority.
MaxCand == 2
\* Polling intervals past the timeout that the clock of a probe is followed.
MaxOver == 1

(***************************************************************************)
(* Small helpers.                                                          *)
(***************************************************************************)
Last(s) == s[Len(s)]

IsPrefix(s, t) == Len(s) <= Len(t) /\ SubSeq(t, 1, Len(s)) = s

(***************************************************************************)
(* The bitrate resolution of build_pipeline (pipeline.py).                 *)
(*                                                                         *)
(* auto_bitrate_factor is a float; the model holds it as the integer       *)
(* factor * FactorScale and computes int(...) on exact rationals.          *)
(***************************************************************************)
FactorScale == 100000

MinKbps == 300
MaxKbps == 25000
DefaultKbps == 2000

\* Python's int() of a quotient a / b with b > 0: truncation toward zero.
Trunc(a, b) == IF a >= 0 THEN a \div b ELSE -((-a) \div b)

Max(a, b) == IF a >= b THEN a ELSE b
Min(a, b) == IF a <= b THEN a ELSE b

\* _DEF_BITRATE_MAP
DEF_BITRATE_MAP ==
    {<<640, 480, 1000>>, <<800, 600, 1300>>, <<1280, 720, 2200>>,
     <<1920, 1080, 4500>>, <<2560, 1440, 8000>>}

InBitrateMap(width, height) == \E e \in DEF_BITRATE_MAP : e[1] = width /\ e[2] = height

BitrateMapGet(width, height) ==
    (CHOOSE e \in DEF_BITRATE_MAP : e[1] = width /\ e[2] = height)[3]

\* A variant that applies the high-framerate scaling at every framerate.
ScaleHighFps_always(base, fps) == IF fps # 0 THEN Trunc(base * fps * 9, 300) ELSE base

\* if fps and fps > 30: base = int(base * (fps / 30.0) * 0.9)
ScaleHighFps(base, fps) == IF fps # 0 /\ fps > 30 THEN Trunc(base * fps * 9, 300) ELSE base

\* return max(300, min(base, 25000))
Clamp(base) == Max(MinKbps, Min(base, MaxKbps))

\* A variant that returns base unclamped.
auto_bitrate_unclamped(width, height, fps, factor) ==
    IF width # 0 /\ height # 0 /\ InBitrateMap(width, height)
      THEN ScaleHighFps(BitrateMapGet(width, height), fps)
      ELSE IF width # 0 /\ height # 0 /\ fps # 0
             THEN ScaleHighFps(Trunc(width * height * fps * factor, FactorScale), fps)
             ELSE DefaultKbps

\* auto_bitrate(width, height, fps, factor)
auto_bitrate(width, height, fps, factor) ==
    IF width # 0 /\ height # 0 /\ InBitrateMap(width, height)
      THEN Clamp(ScaleHighFps(BitrateMapGet(width, height), fps))
      ELSE IF width # 0 /\ height # 0 /\ fps # 0
             THEN Clamp(ScaleHighFps(Trunc(width * height * fps * factor, FactorScale), fps))
             ELSE DefaultKbps

\* A variant that clamps an explicit bitrate_kbps as well.
ResolveBitrate_clamps_explicit(e) ==
    IF e.bitrate_kbps # 0
      THEN Clamp(e.bitrate_kbps)
      ELSE IF e.auto_bitrate \/ (e.width # 0 /\ e.height # 0 /\ e.framerate # 0)
             THEN auto_bitrate(e.width, e.height, e.framerate, e.factor)
             ELSE DefaultKbps

\* build_pipeline:
\*     bitrate = enc.bitrate_kbps
\*     if (bitrate == 0 and enc.auto_bitrate) or (bitrate == 0 and width and height and framerate):
\*         bitrate = auto_bitrate(width, height, framerate, enc.auto_bitrate_factor)
\*     if bitrate == 0: bitrate = 2000
ResolveBitrate(e) ==
    LET b0 == e.bitrate_kbps
        b1 == IF (b0 = 0 /\ e.auto_bitrate)
                 \/ (b0 = 0 /\ e.width # 0 /\ e.height # 0 /\ e.framerate # 0)
                THEN auto_bitrate(e.width, e.height, e.framerate, e.factor)
                ELSE b0
    IN  IF b1 = 0 THEN DefaultKbps ELSE b1

Widths == {-320, 0, 160, 640, 800, 1280, 1920, 2560}
Heights == {0, 120, 480, 600, 720, 1080, 1440}
Framerates == {0, 15, 30, 31, 60, 90}

EncInputs ==
    [width : Widths, height : Heights, framerate : Framerates,
     bitrate_kbps : {0, 100, 4000, 50000},
     auto_bitrate : BOOLEAN,
     factor : {0, 1, 7}]

NoEnc ==
    [width |-> 0, height |-> 0, framerate |-> 0, bitrate_kbps |-> 0,
     auto_bitrate |-> TRUE, factor |-> 7]

(***************************************************************************)
(* Encoder selection (pipeline.py).                                        *)
(*                                                                         *)
(* encoding.hardware_priority is kept as the list of its comma-separated  *)
(* items, as written; the elements GStreamer has installed are a set of   *)
(* factory names (_have_element(name) is name \in caps).                  *)
(***************************************************************************)
None == "none"

\* _HARDWARE_ENCODERS
HARDWARE_ENCODERS ==
    <<"v4l2h264enc", "vaapih264enc", "nvh264enc", "omxh264enc", "qsvh264enc">>

Elements == {"x264enc"} \cup {HARDWARE_ENCODERS[i] : i \in 1..Len(HARDWARE_ENCODERS)}

\* The items a hardware_priority string is made of, as the user writes them.
PriorityItems == {"", "off", "auto", "nvh264enc", " QSVH264ENC", "x264enc"}

\* str.strip() and str.lower() on those items.
Strip(t) == IF t = " QSVH264ENC" THEN "QSVH264ENC" ELSE t

Lower(t) ==
    CASE t = "QSVH264ENC" -> "qsvh264enc"
      [] t = " QSVH264ENC" -> " qsvh264enc"
      [] t = "JPEG" -> "jpeg"
      [] t = "AUTO" -> "auto"
      [] t = "Auto" -> "auto"
      [] OTHER -> t

Priorities == UNION {[1..n -> PriorityItems] : n \in 1..MaxCand}

\* priority = (priority or 'auto').strip().lower()
PriorityString(items) ==
    IF Len(items) = 1
      THEN (IF items[1] = "" THEN "auto" ELSE Lower(Strip(items[1])))
      ELSE "list"

RECURSIVE StripItems(_)
\* [c.strip() for c in priority.split(',') if c.strip()]
StripItems(items) ==
    IF items = <<>>
      THEN <<>>
      ELSE LET c == Lower(Strip(Head(items)))
           IN  IF c = "" THEN StripItems(Tail(items))
                         ELSE <<c>> \o StripItems(Tail(items))

Candidates(items) ==
    IF PriorityString(items) = "auto" THEN HARDWARE_ENCODERS ELSE StripItems(items)

\* for enc in candidates: if _have_element(enc): return enc
FirstAvailable(candidates, caps) ==
    LET avail == {i \in 1..Len(candidates) : candidates[i] \in caps}
    IN  IF avail = {}
          THEN None
          ELSE candidates[CHOOSE i \in avail : \A j \in avail : i <= j]

\* A variant that returns the last available candidate.
select_hw_encoder_last(items, caps) ==
    LET candidates == Candidates(items)
        avail == {i \in 1..Len(candidates) : candidates[i] \in caps}
    IN  IF PriorityString(items) = "off" \/ avail = {}
          THEN None
          ELSE candidates[CHOOSE i \in avail : \A j \in avail : i >= j]

\* select_hw_encoder(priority), the encoder name it returns (None if none).
select_hw_encoder(items, caps) ==
    IF PriorityString(items) = "off"
      THEN None
      ELSE FirstAvailable(Candidates(items), caps)

\* build_pipeline, lines 92-108: have_x264, hw_encoder and the two flags.
Decide(s) ==
    LET codec == Lower(s.codec)
        have_x264 == "x264enc" \in s.caps
        hw_encoder == IF codec \in {"auto", "h264"}
                        THEN select_hw_encoder(s.priority, s.caps)
                        ELSE None
        h264 == IF codec = "h264" THEN TRUE
                ELSE IF codec = "jpeg" THEN FALSE
                ELSE hw_encoder # None \/ have_x264
        passthrough == codec # "h264" /\ (codec = "jpeg" \/ ~(hw_encoder # None \/ have_x264))
    IN  [hw_encoder |-> hw_encoder, use_h264 |-> h264,
         use_mjpeg_passthrough |-> passthrough,
         warned |-> (codec \notin {"h264", "jpeg"} /\ passthrough)]

NoDecision ==
    [hw_encoder |-> None, use_h264 |-> FALSE, use_mjpeg_passthrough |-> FALSE,
     warned |-> FALSE]

\* source_caps = raw_caps if prefer_raw else mjpg_caps
SourceCaps(prefer_raw) == IF prefer_raw THEN "video/x-raw" ELSE "image/jpeg"

\* queue leaky=downstream max-size-buffers=1
LeakyQueue == "queue leaky=downstream max-size-buffers=1"

Prop(name, str, num) == [k |-> name, s |-> str, n |-> num]

\* select_hw_encoder's props for the encoder it returns (lines 45-53).
HwProps(encoder) ==
    CASE encoder = "v4l2h264enc" -> <<Prop("insert-sps-pps", "true", 0)>>
      [] encoder = "vaapih264enc" -> <<Prop("rate-control", "cbr", 0)>>
      [] encoder = "nvh264enc" -> <<Prop("preset", "low-latency-hq", 0)>>
      [] encoder = "qsvh264enc" -> <<Prop("rate-control", "cbr", 0)>>
      [] OTHER -> <<>>

\* A variant of BitrateProp that looks for 'target-bitrate' first.
BitrateProp_target_first(exposed, kbps) ==
    IF "target-bitrate" \in exposed
      THEN <<Prop("target-bitrate", "", kbps * 1000)>>
      ELSE IF "bitrate" \in exposed
             THEN <<Prop("bitrate", "", kbps)>>
             ELSE <<>>

\* Lines 136-141: 'bitrate' if _encoder_has_prop(hw_encoder, 'bitrate'), else
\* 'target-bitrate' in bits per second, else nothing (and a warning).
BitrateProp(exposed, kbps) ==
    IF "bitrate" \in exposed
      THEN <<Prop("bitrate", "", kbps)>>
      ELSE IF "target-bitrate" \in exposed
             THEN <<Prop("target-bitrate", "", kbps * 1000)>>
             ELSE <<>>

\* A variant of the MJPEG pipeline without its queue.
PassthroughPipeline_no_queue(s) ==
    [mode |-> "Passthrough", source |-> "image/jpeg", decode |-> FALSE,
     encoder |-> None, pay |-> "rtpjpegpay", kbps |-> 0,
     device |-> s.device, props |-> <<>>, warned |-> FALSE,
     stages |-> <<"v4l2src", "image/jpeg", "rtpjpegpay name=pay0">>]

\* The MJPEG pipeline of line 111.
PassthroughPipeline(s) ==
    [mode |-> "Passthrough", source |-> "image/jpeg", decode |-> FALSE,
     encoder |-> None, pay |-> "rtpjpegpay", kbps |-> 0,
     device |-> s.device, props |-> <<>>, warned |-> FALSE,
     stages |-> <<"v4l2src", "image/jpeg", LeakyQueue, "rtpjpegpay name=pay0">>]

\* source_chain (lines 115-117): the source, its caps, the decode chain
\* unless prefer_raw, the queue.
SourceChain(s) ==
    <<"v4l2src", SourceCaps(s.prefer_raw)>>
      \o (IF s.prefer_raw THEN <<>> ELSE <<"jpegdec", "videoconvert">>)
      \o <<LeakyQueue>>

\* The hardware pipeline of lines 131-146 and the software one of 148-153.
EncoderPipeline(s, d, kbps) ==
    LET hw == d.hw_encoder # None
    IN  [mode |-> IF hw THEN "Hardware" ELSE "Software",
         source |-> SourceCaps(s.prefer_raw), decode |-> ~s.prefer_raw,
         encoder |-> IF hw THEN d.hw_encoder ELSE "x264enc",
         pay |-> "rtph264pay", kbps |-> kbps,
         device |-> s.device,
         props |-> IF hw THEN HwProps(d.hw_encoder) \o BitrateProp(s.props, kbps)
                         ELSE <<Prop("bitrate", "", kbps)>>,
         warned |-> (hw /\ BitrateProp(s.props, kbps) = <<>>),
         stages |-> SourceChain(s)
                      \o (IF hw THEN <<d.hw_encoder>> ELSE <<"x264enc", "video/x-h264">>)
                      \o <<"h264parse", "rtph264pay name=pay0">>]

NoPipeline ==
    [mode |-> None, source |-> None, decode |-> FALSE, encoder |-> None,
     pay |-> None, kbps |-> 0, device |-> None, props |-> <<>>, warned |-> FALSE,
     stages |-> <<>>]

PipeCodecs == {"auto", "h264", "jpeg", "JPEG", "vp8"}

\* The selection inputs while the bitrate inputs are varied.
NoSel == [codec |-> "h264", priority |-> <<"auto">>, caps |-> {"x264enc"},
          prefer_raw |-> FALSE, props |-> {"bitrate"}, device |-> "/dev/video0"]

\* The codec, the priority and the installed elements take every value.
SelInputs ==
    [codec : PipeCodecs, priority : Priorities, caps : SUBSET Elements,
     prefer_raw : {FALSE}, props : {{"bitrate"}}, device : {"/dev/video0"}]

\* prefer_raw, the device and the properties the hardware encoder exposes
\* take every value, with a few sets of installed elements.
ShapeInputs ==
    [codec : PipeCodecs, priority : {<<"auto">>, <<"off">>},
     caps : {{}, {"x264enc"}, {"x264enc", "nvh264enc"}, {"omxh264enc"}},
     prefer_raw : BOOLEAN, props : SUBSET {"bitrate", "target-bitrate"},
     device : {"/dev/video0", "/dev/video1"}]

\* One call of build_pipeline: the camera / bitrate fields, the selection
\* fields or the shape fields take every value.
PipeInit ==
    /\ ppc = "start"
    /\ \/ enc \in EncInputs /\ sel = NoSel
       \/ enc = NoEnc /\ sel \in SelInputs
       \/ enc = NoEnc /\ sel \in ShapeInputs
    /\ bitrate = 0
    /\ decision = NoDecision
    /\ result = NoPipeline

PipeIdle ==
    /\ ppc = "idle"
    /\ enc = NoEnc
    /\ bitrate = 0
    /\ sel = NoSel
    /\ decision = NoDecision
    /\ result = NoPipeline

\* build_pipeline, lines 92-108.
build_pipeline_select ==
    /\ UNCHANGED <<runVars, cfgVars, diagVars, probeVars>>
    /\ ppc = "start"
    /\ decision' = Decide(sel)
    /\ ppc' = "selected"
    /\ UNCHANGED <<enc, bitrate, sel, result>>

\* if use_mjpeg_passthrough: return the MJPEG pipeline.
build_pipeline_passthrough ==
    /\ UNCHANGED <<runVars, cfgVars, diagVars, probeVars>>
    /\ ppc = "selected"
    /\ decision.use_mjpeg_passthrough
    /\ result' = PassthroughPipeline(sel)
    /\ ppc' = "done"
    /\ UNCHANGED <<enc, bitrate, sel, decision>>

\* build_pipeline resolves the encoder bitrate.
build_pipeline_bitrate ==
    /\ UNCHANGED <<runVars, cfgVars, diagVars, probeVars>>
    /\ ppc = "selected"
    /\ ~decision.use_mjpeg_passthrough
    /\ bitrate' = ResolveBitrate(enc)
    /\ ppc' = "bitrate"
    /\ UNCHANGED <<enc, sel, decision, result>>

\* if hw_encoder: return the hardware pipeline; else the x264enc one.
build_pipeline_encoder ==
    /\ UNCHANGED <<runVars, cfgVars, diagVars, probeVars>>
    /\ ppc = "bitrate"
    /\ result' = EncoderPipeline(sel, decision, bitrate)
    /\ ppc' = "done"
    /\ UNCHANGED <<enc, bitrate, sel, decision>>

PipeNext ==
    \/ build_pipeline_select
    \/ build_pipeline_passthrough
    \/ build_pipeline_bitrate
    \/ build_pipeline_encoder

(***************************************************************************)
(* cmd_run, RtspServer and HttpThread (cli.py, server.py).                 *)
(***************************************************************************)
Sidecars == {"health", "metrics"}

\* The codec strings a configuration may give.  cmd_run compares the codec
\* as written ('JPEG' is not in {'jpeg','auto'}).
Codecs == {"auto", "jpeg", "h264", "JPEG"}

\* The (ok, reason) pairs preflight() returns, named by the reason's head.
PreflightReasons == {"parse_failed", "error", "eos", "playing", "assumed_ok"}

PreflightOk(reason) == reason \in {"eos", "playing", "assumed_ok"}

\* use_mjpeg = (cfg.encoding.codec in {'jpeg','auto'})
ImpliesMjpeg(codec) == codec \in {"jpeg", "auto"}

\* The configurations of a run: camera.prefer_raw is varied with both
\* sidecars disabled, the sidecar ports with prefer_raw at its default.
Configs ==
    [codec : Codecs, preflight : BOOLEAN, prefer_raw : {FALSE},
     health_port : {0, 8080}, metrics_port : {0, 9100}]
    \cup [codec : Codecs, preflight : BOOLEAN, prefer_raw : {TRUE},
          health_port : {0}, metrics_port : {0}]

NoCfg ==
    [codec |-> "auto", preflight |-> TRUE, prefer_raw |-> FALSE,
     health_port |-> 0, metrics_port |-> 0]

\* The sets of installed elements a run is exercised with.
RunCaps == {{}, {"x264enc"}}

\* build_pipeline(cfg), with the default width, height, framerate, bitrate
\* and hardware_priority.
BuildPipeline(c, caps) ==
    LET s == [codec |-> c.codec, priority |-> <<"auto">>, caps |-> caps,
              prefer_raw |-> c.prefer_raw, props |-> {"bitrate"},
              device |-> "/dev/video0"]
        d == Decide(s)
    IN  IF d.use_mjpeg_passthrough
          THEN PassthroughPipeline(s)
          ELSE EncoderPipeline(s, d, ResolveBitrate(NoEnc))

NoThread == [st |-> "none", request |-> FALSE, shut |-> FALSE]

\* HttpThread.httpd is set: make_server returned.
HasHttpd(t) == thr[t].st \in {"bound", "serving", "exited", "serve_failed"}

\* The sidecar thread is alive and is in, or on its way into, serve_forever.
SidecarLive(t) == thr[t].st \in {"started", "bound", "serving"}

InServeLoop(t) == thr[t].st = "serving"

\* GObject.MainLoop.is_running()
LoopIsRunning == loop = "running"

\* What a caller of stop() can observe of the server afterwards, with the
\* position of the main thread that the call interrupted.
ServerState ==
    [at |-> pc, loopRunning |-> LoopIsRunning, live |-> {t \in Sidecars : SidecarLive(t)}]

\* The positions of the main thread inside RtspServer.start, after its first
\* statements.
StartPcs == {"start_health", "start_metrics", "loop_run", "in_loop"}

ExitOk == 0
ExitPreflightFailed == 2
ExitException == 1

RunInit ==
    /\ pc = "dispatch"
    /\ args \in {[cmd |-> "run", print_pipeline |-> p, dry_run |-> d] : p, d \in BOOLEAN}
             \cup {[cmd |-> "print-pipeline", print_pipeline |-> FALSE, dry_run |-> FALSE]}
    /\ cfg = NoCfg
    /\ probes = <<>>
    /\ trace = <<>>
    /\ exitCode = -1
    /\ compiled = FALSE
    /\ pipeline = NoPipeline
    /\ printed = FALSE
    /\ handlerSet = FALSE
    /\ loop = "none"
    /\ attach = "none"
    /\ attachCount = 0
    /\ thr = [t \in Sidecars |-> NoThread]
    /\ hpc = "idle"
    /\ signals = 0
    /\ stopsDone = 0
    /\ stopInStart = FALSE
    /\ afterStop = <<>>
    /\ log = {}

RunIdle ==
    /\ pc = "idle"
    /\ args = [cmd |-> "run", print_pipeline |-> FALSE, dry_run |-> FALSE]
    /\ cfg = NoCfg
    /\ probes = <<>>
    /\ trace = <<>>
    /\ exitCode = -1
    /\ compiled = FALSE
    /\ pipeline = NoPipeline
    /\ printed = FALSE
    /\ handlerSet = FALSE
    /\ loop = "none"
    /\ attach = "none"
    /\ attachCount = 0
    /\ thr = [t \in Sidecars |-> NoThread]
    /\ hpc = "idle"
    /\ signals = 0
    /\ stopsDone = 0
    /\ stopInStart = FALSE
    /\ afterStop = <<>>
    /\ log = {}

\* main(): args.func(args) for the run command.
main_run ==
    /\ UNCHANGED <<cfgVars, pipeVars, diagVars, probeVars, log>>
    /\ pc = "dispatch"
    /\ args.cmd = "run"
    /\ pc' = "config"
    /\ UNCHANGED <<args, cfg, probes, trace, exitCode, compiled, pipeline, printed, handlerSet,
                   loop, attach, attachCount, thr, hpc, signals, stopsDone,
                   stopInStart, afterStop>>

\* cmd_print_pipeline sets both flags and calls cmd_run.
cmd_print_pipeline ==
    /\ UNCHANGED <<cfgVars, pipeVars, diagVars, probeVars, log>>
    /\ pc = "dispatch"
    /\ args.cmd = "print-pipeline"
    /\ args' = [args EXCEPT !.print_pipeline = TRUE, !.dry_run = TRUE]
    /\ pc' = "config"
    /\ UNCHANGED <<cfg, probes, trace, exitCode, compiled, pipeline, printed, handlerSet,
                   loop, attach, attachCount, thr, hpc, signals, stopsDone,
                   stopInStart, afterStop>>

\* cfg = build_config(...); configure_logging; configure_gst_debug; Gst.init.
cmd_run_config ==
    /\ UNCHANGED <<cfgVars, pipeVars, diagVars, probeVars, log>>
    /\ pc = "config"
    /\ \E c \in Configs : cfg' = c
    /\ trace' = Append(trace, "config")
    /\ pc' = "device"
    /\ UNCHANGED <<args, probes, exitCode, compiled, pipeline, printed, handlerSet,
                   loop, attach, attachCount, thr, hpc, signals, stopsDone,
                   stopInStart, afterStop>>

\* build_config raises (FileNotFoundError, a validation error): the exception
\* is not caught by cmd_run or main().
cmd_run_config_raises ==
    /\ UNCHANGED <<cfgVars, pipeVars, diagVars, probeVars, log>>
    /\ pc = "config"
    /\ pc' = "exited"
    /\ exitCode' = ExitException
    /\ UNCHANGED <<args, cfg, probes, trace, compiled, pipeline, printed, handlerSet,
                   loop, attach, attachCount, thr, hpc, signals, stopsDone,
                   stopInStart, afterStop>>

\* cfg.camera.device = auto_select(cfg.camera.device)
cmd_run_device ==
    /\ UNCHANGED <<cfgVars, pipeVars, diagVars, probeVars, log>>
    /\ pc = "device"
    /\ trace' = Append(trace, "device")
    /\ pc' = "preflight"
    /\ UNCHANGED <<args, cfg, probes, exitCode, compiled, pipeline, printed, handlerSet,
                   loop, attach, attachCount, thr, hpc, signals, stopsDone,
                   stopInStart, afterStop>>

Probe(use_mjpeg, reason) == [mjpeg |-> use_mjpeg, reason |-> reason, ok |-> PreflightOk(reason)]

\* A variant of cmd_run_preflight that retries on any failure (`if not ok:`
\* without `and use_mjpeg`).
cmd_run_preflight_retry_any ==
    /\ UNCHANGED <<cfgVars, pipeVars, diagVars, probeVars>>
    /\ pc = "preflight"
    /\ IF cfg.preflight
         THEN \E reason \in PreflightReasons :
                /\ probes' = Append(probes, Probe(ImpliesMjpeg(cfg.codec), reason))
                /\ trace' = Append(trace, "probe")
                /\ IF PreflightOk(reason)
                     THEN pc' = "build" /\ UNCHANGED log
                     ELSE /\ pc' = "preflight_raw"
                          /\ log' = log \cup {"warning: MJPEG preflight failed"}
         ELSE /\ pc' = "build"
              /\ UNCHANGED <<probes, trace, log>>
    /\ UNCHANGED <<args, cfg, exitCode, compiled, pipeline, printed, handlerSet,
                   loop, attach, attachCount, thr, hpc, signals, stopsDone,
                   stopInStart, afterStop>>

\* if cfg.camera.preflight: the first preflight() call and what follows it.
cmd_run_preflight ==
    /\ UNCHANGED <<cfgVars, pipeVars, diagVars, probeVars>>
    /\ pc = "preflight"
    /\ IF cfg.preflight
         THEN \E reason \in PreflightReasons :
                LET use_mjpeg == ImpliesMjpeg(cfg.codec)
                    ok == PreflightOk(reason)
                IN  /\ probes' = Append(probes, Probe(use_mjpeg, reason))
                    /\ trace' = Append(trace, "probe")
                    /\ IF ok
                         THEN pc' = "build" /\ UNCHANGED <<exitCode, log>>
                         ELSE IF use_mjpeg
                                THEN /\ pc' = "preflight_raw"
                                     /\ log' = log \cup {"warning: MJPEG preflight failed"}
                                     /\ UNCHANGED exitCode
                                ELSE /\ pc' = "exited"
                                     /\ log' = log \cup {"error: Preflight failed"}
                                     /\ exitCode' = ExitPreflightFailed
         ELSE /\ pc' = "build"
              /\ UNCHANGED <<probes, trace, exitCode, log>>
    /\ UNCHANGED <<args, cfg, compiled, pipeline, printed, handlerSet,
                   loop, attach, attachCount, thr, hpc, signals, stopsDone,
                   stopInStart, afterStop>>

\* A variant of cmd_run_preflight_raw without the `return 2`: a failed raw
\* fallback is logged and startup goes on.
cmd_run_preflight_raw_no_abort ==
    /\ UNCHANGED <<cfgVars, pipeVars, diagVars, probeVars>>
    /\ pc = "preflight_raw"
    /\ \E reason2 \in PreflightReasons :
         /\ probes' = Append(probes, Probe(FALSE, reason2))
         /\ trace' = Append(trace, "probe")
         /\ pc' = "build"
         /\ log' = IF PreflightOk(reason2)
                     THEN log
                     ELSE log \cup {"error: Preflight failed (raw fallback)"}
    /\ UNCHANGED <<args, cfg, exitCode, compiled, pipeline, printed, handlerSet,
                   loop, attach, attachCount, thr, hpc, signals, stopsDone,
                   stopInStart, afterStop>>

\* The raw fallback: preflight(device, False, ...).
cmd_run_preflight_raw ==
    /\ UNCHANGED <<cfgVars, pipeVars, diagVars, probeVars>>
    /\ pc = "preflight_raw"
    /\ \E reason2 \in PreflightReasons :
         /\ probes' = Append(probes, Probe(FALSE, reason2))
         /\ trace' = Append(trace, "probe")
         /\ IF PreflightOk(reason2)
              THEN pc' = "build" /\ UNCHANGED <<exitCode, log>>
              ELSE /\ pc' = "exited"
                   /\ log' = log \cup {"error: Preflight failed (raw fallback)"}
                   /\ exitCode' = ExitPreflightFailed
    /\ UNCHANGED <<args, cfg, compiled, pipeline, printed, handlerSet,
                   loop, attach, attachCount, thr, hpc, signals, stopsDone,
                   stopInStart, afterStop>>

\* A variant of cmd_run_build without the dry_run return.
cmd_run_build_ignores_dry_run ==
    /\ UNCHANGED <<cfgVars, pipeVars, diagVars, probeVars, log>>
    /\ pc = "build"
    /\ compiled' = TRUE
    /\ \E caps \in RunCaps : pipeline' = BuildPipeline(cfg, caps)
    /\ trace' = Append(trace, "compile")
    /\ IF args.print_pipeline
         THEN printed' = TRUE /\ pc' = "exited" /\ exitCode' = ExitOk
         ELSE pc' = "serve_setup" /\ UNCHANGED <<printed, exitCode>>
    /\ UNCHANGED <<args, cfg, probes, handlerSet,
                   loop, attach, attachCount, thr, hpc, signals, stopsDone,
                   stopInStart, afterStop>>

\* pipeline = build_pipeline(cfg); the print_pipeline and dry_run returns.
cmd_run_build ==
    /\ UNCHANGED <<cfgVars, pipeVars, diagVars, probeVars, log>>
    /\ pc = "build"
    /\ compiled' = TRUE
    /\ \E caps \in RunCaps : pipeline' = BuildPipeline(cfg, caps)
    /\ trace' = Append(trace, "compile")
    /\ IF args.print_pipeline
         THEN printed' = TRUE /\ pc' = "exited" /\ exitCode' = ExitOk
         ELSE IF args.dry_run
                THEN pc' = "exited" /\ exitCode' = ExitOk /\ UNCHANGED printed
                ELSE pc' = "serve_setup" /\ UNCHANGED <<printed, exitCode>>
    /\ UNCHANGED <<args, cfg, probes, handlerSet,
                   loop, attach, attachCount, thr, hpc, signals, stopsDone,
                   stopInStart, afterStop>>

\* srv = RtspServer(...); signal.signal(s, _sig) for SIGINT and SIGTERM.
cmd_run_setup ==
    /\ UNCHANGED <<cfgVars, pipeVars, diagVars, probeVars, log>>
    /\ pc = "serve_setup"
    /\ handlerSet' = TRUE
    /\ pc' = "start"
    /\ UNCHANGED <<args, cfg, probes, trace, exitCode, compiled, pipeline, printed,
                   loop, attach, attachCount, thr, hpc, signals, stopsDone,
                   stopInStart, afterStop>>

\* A variant of start_attach without the `return` after the error is logged.
start_attach_no_return ==
    /\ UNCHANGED <<cfgVars, pipeVars, diagVars, probeVars>>
    /\ pc = "start"
    /\ hpc = "idle"
    /\ loop' = "idle"
    /\ attachCount' = attachCount + 1
    /\ trace' = Append(trace, "start")
    /\ pc' = "start_health"
    /\ \E attach_id \in BOOLEAN :
         IF attach_id
           THEN attach' = "ok" /\ UNCHANGED log
           ELSE /\ attach' = "failed"
                /\ log' = log \cup {"error: Failed to attach RTSP server"}
    /\ UNCHANGED <<args, cfg, probes, exitCode, compiled, pipeline, printed, handlerSet,
                   thr, hpc, signals, stopsDone, stopInStart, afterStop>>

\* RtspServer.start up to the attach: the MainLoop and the RTSPServer are
\* created, the factory is mounted, server.attach(None) succeeds or fails.
start_attach ==
    /\ UNCHANGED <<cfgVars, pipeVars, diagVars, probeVars>>
    /\ pc = "start"
    /\ hpc = "idle"
    /\ loop' = "idle"
    /\ attachCount' = attachCount + 1
    /\ trace' = Append(trace, "start")
    /\ \E attach_id \in BOOLEAN :
         IF attach_id
           THEN attach' = "ok" /\ pc' = "start_health" /\ UNCHANGED log
           ELSE /\ attach' = "failed"
                /\ log' = log \cup {"error: Failed to attach RTSP server"}
                /\ pc' = "start_returned"
    /\ UNCHANGED <<args, cfg, probes, exitCode, compiled, pipeline, printed, handlerSet,
                   thr, hpc, signals, stopsDone, stopInStart, afterStop>>

\* A variant of start_health without `if self.health_port:`.
start_health_any_port ==
    /\ UNCHANGED <<cfgVars, pipeVars, diagVars, probeVars, log>>
    /\ pc = "start_health"
    /\ hpc = "idle"
    /\ thr' = [thr EXCEPT !["health"] = [NoThread EXCEPT !.st = "started"]]
    /\ pc' = "start_metrics"
    /\ UNCHANGED <<args, cfg, probes, trace, exitCode, compiled, pipeline, printed, handlerSet,
                   loop, attach, attachCount, hpc, signals, stopsDone,
                   stopInStart, afterStop>>

\* if self.health_port: self._health_thread = HttpThread(...); .start()
start_health ==
    /\ UNCHANGED <<cfgVars, pipeVars, diagVars, probeVars, log>>
    /\ pc = "start_health"
    /\ hpc = "idle"
    /\ thr' = IF cfg.health_port # 0
                THEN [thr EXCEPT !["health"] = [NoThread EXCEPT !.st = "started"]]
                ELSE thr
    /\ pc' = "start_metrics"
    /\ UNCHANGED <<args, cfg, probes, trace, exitCode, compiled, pipeline, printed, handlerSet,
                   loop, attach, attachCount, hpc, signals, stopsDone,
                   stopInStart, afterStop>>

\* if self.metrics_port: self._metrics_thread = HttpThread(...); .start()
start_metrics ==
    /\ UNCHANGED <<cfgVars, pipeVars, diagVars, probeVars, log>>
    /\ pc = "start_metrics"
    /\ hpc = "idle"
    /\ thr' = IF cfg.metrics_port # 0
                THEN [thr EXCEPT !["metrics"] = [NoThread EXCEPT !.st = "started"]]
                ELSE thr
    /\ pc' = "loop_run"
    /\ UNCHANGED <<args, cfg, probes, trace, exitCode, compiled, pipeline, printed, handlerSet,
                   loop, attach, attachCount, hpc, signals, stopsDone,
                   stopInStart, afterStop>>

\* if self.loop: self.loop.run()   -- the call: the loop starts running.
start_loop_run ==
    /\ UNCHANGED <<cfgVars, pipeVars, diagVars, probeVars, log>>
    /\ pc = "loop_run"
    /\ hpc = "idle"
    /\ loop' = "running"
    /\ pc' = "in_loop"
    /\ UNCHANGED <<args, cfg, probes, trace, exitCode, compiled, pipeline, printed, handlerSet,
                   attach, attachCount, thr, hpc, signals, stopsDone,
                   stopInStart, afterStop>>

\* self.loop.run() returns once the loop was quit; start returns.
start_loop_returns ==
    /\ UNCHANGED <<cfgVars, pipeVars, diagVars, probeVars, log>>
    /\ pc = "in_loop"
    /\ hpc = "idle"
    /\ loop = "quit"
    /\ pc' = "start_returned"
    /\ UNCHANGED <<args, cfg, probes, trace, exitCode, compiled, pipeline, printed, handlerSet,
                   loop, attach, attachCount, thr, hpc, signals, stopsDone,
                   stopInStart, afterStop>>

\* srv.start() returned: cmd_run returns 0 and the process exits (the
\* sidecars are daemon threads).
cmd_run_return ==
    /\ UNCHANGED <<cfgVars, pipeVars, diagVars, probeVars, log>>
    /\ pc = "start_returned"
    /\ hpc = "idle"
    /\ pc' = "exited"
    /\ exitCode' = ExitOk
    /\ UNCHANGED <<args, cfg, probes, trace, compiled, pipeline, printed, handlerSet,
                   loop, attach, attachCount, thr, hpc, signals, stopsDone,
                   stopInStart, afterStop>>

\* HttpThread.run: self.httpd = make_server(...), which binds the port; a
\* failure is logged by the except clause and the thread ends.
http_bind(t) ==
    /\ UNCHANGED <<cfgVars, pipeVars, diagVars, probeVars>>
    /\ pc # "exited"
    /\ thr[t].st = "started"
    /\ \E bound \in BOOLEAN :
         IF bound
           THEN thr' = [thr EXCEPT ![t].st = "bound"] /\ UNCHANGED log
           ELSE /\ thr' = [thr EXCEPT ![t].st = "bind_failed"]
                /\ log' = log \cup {"error: HTTP thread failed"}
    /\ UNCHANGED <<pc, args, cfg, probes, trace, exitCode, compiled, pipeline, printed,
                   handlerSet, loop, attach, attachCount, hpc, signals, stopsDone,
                   stopInStart, afterStop>>

\* serve_forever is entered: it clears the is-shut-down event.
http_serve(t) ==
    /\ UNCHANGED <<cfgVars, pipeVars, diagVars, probeVars, log>>
    /\ pc # "exited"
    /\ thr[t].st = "bound"
    /\ thr' = [thr EXCEPT ![t].st = "serving", ![t].shut = FALSE]
    /\ UNCHANGED <<pc, args, cfg, probes, trace, exitCode, compiled, pipeline, printed,
                   handlerSet, loop, attach, attachCount, hpc, signals, stopsDone,
                   stopInStart, afterStop>>

\* serve_forever sees the shutdown request and leaves its loop; its finally
\* clause resets the request and sets the is-shut-down event.
http_serve_exit(t) ==
    /\ UNCHANGED <<cfgVars, pipeVars, diagVars, probeVars, log>>
    /\ pc # "exited"
    /\ thr[t].st = "serving"
    /\ thr[t].request
    /\ thr' = [thr EXCEPT ![t] = [st |-> "exited", request |-> FALSE, shut |-> TRUE]]
    /\ UNCHANGED <<pc, args, cfg, probes, trace, exitCode, compiled, pipeline, printed,
                   handlerSet, loop, attach, attachCount, hpc, signals, stopsDone,
                   stopInStart, afterStop>>

\* serve_forever raises: the same finally clause runs, then run()'s except
\* clause logs the failure.
http_serve_fail(t) ==
    /\ UNCHANGED <<cfgVars, pipeVars, diagVars, probeVars>>
    /\ pc # "exited"
    /\ thr[t].st = "serving"
    /\ thr' = [thr EXCEPT ![t] = [st |-> "serve_failed", request |-> FALSE, shut |-> TRUE]]
    /\ log' = log \cup {"error: HTTP thread failed"}
    /\ UNCHANGED <<pc, args, cfg, probes, trace, exitCode, compiled, pipeline, printed,
                   handlerSet, loop, attach, attachCount, hpc, signals, stopsDone,
                   stopInStart, afterStop>>

\* A SIGINT / SIGTERM is delivered: _sig runs on the main thread, between two
\* of its steps, and calls srv.stop(), whose first statement is
\*     if self.loop and self.loop.is_running(): self.loop.quit()
sig_stop_loop ==
    /\ UNCHANGED <<cfgVars, pipeVars, diagVars, probeVars, log>>
    /\ handlerSet
    /\ pc # "exited"
    /\ hpc = "idle"
    /\ signals < MaxSignals
    /\ signals' = signals + 1
    /\ loop' = IF loop # "none" /\ LoopIsRunning THEN "quit" ELSE loop
    /\ stopInStart' = (stopInStart \/ pc \in StartPcs)
    /\ hpc' = "health"
    /\ UNCHANGED <<pc, args, cfg, probes, trace, exitCode, compiled, pipeline, printed,
                   handlerSet, attach, attachCount, thr, stopsDone, afterStop>>

NextAfter(t) == IF t = "health" THEN "metrics" ELSE "idle"

WaitPc(t) == IF t = "health" THEN "health_wait" ELSE "metrics_wait"

\* stop() has run to its end when the handler is back to idle.
StopReturn(next) ==
    IF next = "idle"
      THEN /\ stopsDone' = stopsDone + 1
           /\ afterStop' = Append(afterStop, ServerState')
      ELSE UNCHANGED <<stopsDone, afterStop>>

\* if self._health_thread: self._health_thread.stop()   (and metrics alike)
\* HttpThread.stop: if self.httpd: self.httpd.shutdown(), which sets the
\* shutdown request and then waits for the is-shut-down event.
stop_sidecar(t) ==
    /\ UNCHANGED <<cfgVars, pipeVars, diagVars, probeVars, log>>
    /\ hpc = t
    /\ UNCHANGED <<pc, args, cfg, probes, trace, exitCode, compiled, pipeline, printed,
                   handlerSet, loop, attach, attachCount, signals, stopInStart>>
    /\ IF thr[t].st # "none" /\ HasHttpd(t)
         THEN /\ thr' = [thr EXCEPT ![t].request = TRUE]
              /\ hpc' = WaitPc(t)
              /\ UNCHANGED <<stopsDone, afterStop>>
         ELSE /\ thr' = thr
              /\ hpc' = NextAfter(t)
              /\ StopReturn(NextAfter(t))

\* shutdown() returns: the is-shut-down event is set.
stop_sidecar_wait(t) ==
    /\ UNCHANGED <<cfgVars, pipeVars, diagVars, probeVars, log>>
    /\ hpc = WaitPc(t)
    /\ thr[t].shut
    /\ UNCHANGED <<pc, args, cfg, probes, trace, exitCode, compiled, pipeline, printed,
                   handlerSet, loop, attach, attachCount, signals, stopInStart>>
    /\ hpc' = NextAfter(t)
    /\ thr' = thr
    /\ StopReturn(NextAfter(t))

MainThread ==
    \/ main_run
    \/ cmd_print_pipeline
    \/ cmd_run_config
    \/ cmd_run_config_raises
    \/ cmd_run_device
    \/ cmd_run_preflight
    \/ cmd_run_preflight_raw
    \/ cmd_run_build
    \/ cmd_run_setup
    \/ start_attach
    \/ start_health
    \/ start_metrics
    \/ start_loop_run
    \/ start_loop_returns
    \/ cmd_run_return

SidecarThread(t) ==
    \/ http_bind(t)
    \/ http_serve(t)
    \/ http_serve_exit(t)

StopSteps ==
    \E t \in Sidecars : stop_sidecar(t) \/ stop_sidecar_wait(t)

RunNext ==
    \/ MainThread
    \/ \E t \in Sidecars : SidecarThread(t) \/ http_serve_fail(t)
    \/ sig_stop_loop
    \/ StopSteps

(***************************************************************************)
(* build_config and RtspCfg (config.py).                                   *)
(*                                                                         *)
(* A Python str is a sequence of one-character strings.  A configuration  *)
(* value is a record: a str (k = "str", s), an int (k = "int", n), or the *)
(* absence of the key from a layer's dict (k = "unset").  The model keeps *)
(* two sections: camera {width, framerate} and rtsp {mount_path}.         *)
(***************************************************************************)
StrV(s) == [k |-> "str", s |-> s, n |-> 0]
IntV(n) == [k |-> "int", s |-> <<>>, n |-> n]
Unset == [k |-> "unset", s |-> <<>>, n |-> 0]

\* The characters of the mount_path strings the layers supply.
Alphabet == {"/", "f", "o"}

Strings(len) == UNION {[1..m -> Alphabet] : m \in 0..len}

StreamPath == <<"/", "s", "t", "r", "e", "a", "m">>

\* DEFAULTS
DEFAULTS ==
    [camera |-> [width |-> IntV(0), framerate |-> IntV(0)],
     rtsp |-> [mount_path |-> StrV(StreamPath)]]

EmptyLayer ==
    [camera |-> [width |-> Unset, framerate |-> Unset],
     rtsp |-> [mount_path |-> Unset]]

\* dict.update: the keys of kv overwrite those of d, the others stay.
DictUpdate(d, kv) == [key \in DOMAIN d |-> IF kv[key].k # "unset" THEN kv[key] ELSE d[key]]

\* for sec, kv in layer.items(): merged.setdefault(sec, {}); merged[sec].update(kv)
MergeLayer(m, layer) == [sec \in DOMAIN m |-> DictUpdate(m[sec], layer[sec])]

\* _load_ini and the merge of its result (build_config, first loop).
MergeIni(m, path, ini) == IF path = "ok" THEN MergeLayer(m, ini) ELSE m

\* _apply_env(merged): over.setdefault(section, {})[k] = val
apply_env(m, env) == MergeLayer(m, env)

\* A variant of MergeCli that assigns the section (merged[sec] = kv) instead
\* of updating it: the keys the CLI leaves unset fall back to the defaults.
MergeCli_assign_section(m, cli) ==
    [sec \in DOMAIN m |->
        IF \E key \in DOMAIN cli[sec] : cli[sec][key].k # "unset"
          THEN DictUpdate(DEFAULTS[sec], cli[sec])
          ELSE m[sec]]

\* if cli_overrides: ... merged[sec].update(kv)
MergeCli(m, cli) == MergeLayer(m, cli)

Digits == <<"0", "1", "2", "3", "4", "5", "6", "7", "8", "9">>

IsDigits(s) == Len(s) > 0 /\ \A i \in 1..Len(s) : \E d \in 1..Len(Digits) : Digits[d] = s[i]

DigitVal(c) == (CHOOSE d \in 1..Len(Digits) : Digits[d] = c) - 1

RECURSIVE ParseInt(_)
ParseInt(s) == IF Len(s) = 0 THEN 0 ELSE ParseInt(SubSeq(s, 1, Len(s) - 1)) * 10 + DigitVal(Last(s))

\* _SIMPLE_CASTS: the keys of the model that have a caster (int).
IntKeys == {"width", "framerate"}

\* _coerce: caster(v), or v itself when there is no caster or it raises.
coerce(key, v) ==
    IF v.k = "str" /\ key \in IntKeys /\ IsDigits(v.s) THEN IntV(ParseInt(v.s)) ELSE v

\* build_config, "coerce types": every str value goes through _coerce.
CoerceAll(m) == [sec \in DOMAIN m |-> [key \in DOMAIN m[sec] |-> coerce(key, m[sec][key])]]

\* pydantic's validation of an int field accepts an int (or a str of digits).
ValidInt(v) == v.k = "int" \/ (v.k = "str" /\ IsDigits(v.s))

IntOf(v) == IF v.k = "int" THEN v.n ELSE ParseInt(v.s)

StartsWithSlash(v) == Len(v) > 0 /\ v[1] = "/"

\* str.rstrip('/')
RECURSIVE RStripSlash(_)
RStripSlash(v) ==
    IF Len(v) > 0 /\ Last(v) = "/" THEN RStripSlash(SubSeq(v, 1, Len(v) - 1)) ELSE v

\* A variant of NormalizeMountPath that prepends '/' without looking at the
\* first character.
NormalizeMountPath_always_prefix(x) ==
    LET stripped == RStripSlash(<<"/">> \o x)
    IN  IF Len(stripped) = 0 THEN StreamPath ELSE stripped

\* RtspCfg.__init__:
\*     if not v.startswith('/'): v = '/' + v
\*     self.mount_path = v.rstrip('/') or '/stream'
NormalizeMountPath(x) ==
    LET v == IF StartsWithSlash(x) THEN x ELSE <<"/">> \o x
        stripped == RStripSlash(v)
    IN  IF Len(stripped) = 0 THEN StreamPath ELSE stripped

\* AppConfig(camera=CameraCfg(**merged['camera']), rtsp=RtspCfg(**merged['rtsp']))
\* raises a validation error unless every field has its declared type.
Validates(m) ==
    /\ ValidInt(m.camera.width)
    /\ ValidInt(m.camera.framerate)
    /\ m.rtsp.mount_path.k = "str"

Construct(m) ==
    [camera |-> [width |-> IntOf(m.camera.width), framerate |-> IntOf(m.camera.framerate)],
     rtsp |-> [mount_path |-> NormalizeMountPath(m.rtsp.mount_path.s)]]

NoResolved == [camera |-> [width |-> 0, framerate |-> 0], rtsp |-> [mount_path |-> <<>>]]

IniLayers ==
    [camera : [width : {Unset, StrV(<<"6", "4", "0">>), StrV(<<"x">>)},
               framerate : {Unset, StrV(<<"3", "0">>)}],
     rtsp : [mount_path : {Unset, StrV(<<"/", "c", "a", "m">>)}]]

EnvLayers ==
    [camera : [width : {Unset, StrV(<<"8", "0", "0">>)}, framerate : {Unset}],
     rtsp : [mount_path : {Unset, StrV(<<"o", "/">>)}]]

CliLayers ==
    [camera : [width : {Unset, IntV(1024)}, framerate : {Unset, IntV(60)}],
     rtsp : [mount_path : {Unset} \cup {StrV(x) : x \in Strings(MaxLen)}]]

CfgInit ==
    /\ bpc = "start"
    /\ iniPath \in {"none", "ok", "missing"}
    /\ iniLayer \in IniLayers
    /\ iniPath # "ok" => iniLayer = EmptyLayer
    /\ envLayer \in EnvLayers
    /\ cliLayer \in CliLayers
    /\ merged = DEFAULTS
    /\ resolved = NoResolved

CfgIdle ==
    /\ bpc = "idle"
    /\ iniPath = "none"
    /\ iniLayer = EmptyLayer
    /\ envLayer = EmptyLayer
    /\ cliLayer = EmptyLayer
    /\ merged = DEFAULTS
    /\ resolved = NoResolved

\* The merged dict build_config holds after its coercion loop.
Merged ==
    CoerceAll(MergeCli(apply_env(MergeIni(DEFAULTS, iniPath, iniLayer), envLayer), cliLayer))

\* build_config returns the AppConfig.
build_config ==
    /\ UNCHANGED <<runVars, pipeVars, diagVars, probeVars>>
    /\ bpc = "start"
    /\ iniPath # "missing"
    /\ Validates(Merged)
    /\ merged' = Merged
    /\ resolved' = Construct(Merged)
    /\ bpc' = "done"
    /\ UNCHANGED <<iniPath, iniLayer, envLayer, cliLayer>>

\* _load_ini raises FileNotFoundError: a path was given and cp.read found
\* nothing.
build_config_no_file ==
    /\ UNCHANGED <<runVars, pipeVars, diagVars, probeVars>>
    /\ bpc = "start"
    /\ iniPath = "missing"
    /\ bpc' = "raised"
    /\ UNCHANGED <<iniPath, iniLayer, envLayer, cliLayer, merged, resolved>>

\* A merged value does not validate: the model constructor raises.
build_config_invalid ==
    /\ UNCHANGED <<runVars, pipeVars, diagVars, probeVars>>
    /\ bpc = "start"
    /\ iniPath # "missing"
    /\ ~Validates(Merged)
    /\ merged' = Merged
    /\ bpc' = "raised"
    /\ UNCHANGED <<iniPath, iniLayer, envLayer, cliLayer, resolved>>

CfgNext ==
    \/ build_config
    \/ build_config_no_file
    \/ build_config_invalid

(***************************************************************************)
(* cmd_preflight, cmd_dump_config (cli.py) and auto_select (detect.py).    *)
(***************************************************************************)
DefaultDevice == "/dev/video0"

\* The values camera.device is configured with.
DeviceValues == {"auto", "AUTO", "Auto", "/dev/video1", "/dev/missing"}

\* The device nodes that exist on the host.
Reachable == {"/dev/video0", "/dev/video1", "/dev/video2"}

\* The results of list_devices(): the /dev/video* nodes found, in order.
DeviceLists == {<<>>, <<"/dev/video2">>, <<"/dev/video2", "/dev/video0">>}

\* auto_select(config_value), with the list list_devices() returns.
auto_select(config_value, found) ==
    IF Lower(config_value) # "auto"
      THEN config_value
      ELSE IF found # <<>> THEN found[1] ELSE DefaultDevice

\* The reasons preflight() can return for a device: v4l2src on a node that
\* does not exist fails to parse or posts an ERROR.
ReasonsFor(device) ==
    IF device \in Reachable THEN PreflightReasons ELSE {"parse_failed", "error"}

NoDiagCfg == [configured |-> "auto", device |-> "auto", codec |-> "auto"]

DiagInit ==
    /\ dpc = "config"
    /\ dargs \in [cmd : {"preflight", "dump-config"}, config : {"ok", "missing", "invalid"}]
    /\ dcfg = NoDiagCfg
    /\ devices \in DeviceLists
    /\ dout = <<>>
    /\ dexit = -1

DiagIdle ==
    /\ dpc = "idle"
    /\ dargs = [cmd |-> "preflight", config |-> "ok"]
    /\ dcfg = NoDiagCfg
    /\ devices = <<>>
    /\ dout = <<>>
    /\ dexit = -1

\* cfg = build_config(args.config, ...) returns.
diag_config ==
    /\ UNCHANGED <<runVars, cfgVars, pipeVars, probeVars>>
    /\ dpc = "config"
    /\ dargs.config = "ok"
    /\ \E d \in DeviceValues, c \in Codecs :
         dcfg' = [configured |-> d, device |-> d, codec |-> c]
    /\ dpc' = IF dargs.cmd = "preflight" THEN "device" ELSE "dump"
    /\ UNCHANGED <<dargs, devices, dout, dexit>>

\* build_config raises (FileNotFoundError from _load_ini, a validation error
\* from the model constructors); neither command nor main() catches it.
diag_config_raises ==
    /\ UNCHANGED <<runVars, cfgVars, pipeVars, probeVars>>
    /\ dpc = "config"
    /\ dargs.config \in {"missing", "invalid"}
    /\ dpc' = "exited"
    /\ dexit' = ExitException
    /\ UNCHANGED <<dargs, dcfg, devices, dout>>

\* cfg.camera.device = auto_select(cfg.camera.device)
cmd_preflight_device ==
    /\ UNCHANGED <<runVars, cfgVars, pipeVars, probeVars>>
    /\ dpc = "device"
    /\ dcfg' = [dcfg EXCEPT !.device = auto_select(dcfg.device, devices)]
    /\ dpc' = "probe"
    /\ UNCHANGED <<dargs, devices, dout, dexit>>

\* The first preflight() call, the JSON object printed, and the returns that
\* follow it.
cmd_preflight_probe ==
    /\ UNCHANGED <<runVars, cfgVars, pipeVars, probeVars>>
    /\ dpc = "probe"
    /\ \E reason \in ReasonsFor(dcfg.device) :
         LET ok == PreflightOk(reason)
         IN  /\ dout' = Append(dout, [kind |-> "preflight", ok |-> ok, reason |-> reason,
                                      device |-> dcfg.device])
             /\ IF ok
                  THEN dpc' = "exited" /\ dexit' = ExitOk
                  ELSE IF ImpliesMjpeg(dcfg.codec)
                         THEN dpc' = "probe_raw" /\ UNCHANGED dexit
                         ELSE dpc' = "exited" /\ dexit' = ExitPreflightFailed
    /\ UNCHANGED <<dargs, dcfg, devices>>

\* The raw probe: a second object {ok_raw, reason_raw} is printed.
cmd_preflight_raw ==
    /\ UNCHANGED <<runVars, cfgVars, pipeVars, probeVars>>
    /\ dpc = "probe_raw"
    /\ \E reason2 \in ReasonsFor(dcfg.device) :
         /\ dout' = Append(dout, [kind |-> "preflight_raw", ok |-> PreflightOk(reason2),
                                  reason |-> reason2, device |-> dcfg.device])
         /\ dexit' = IF PreflightOk(reason2) THEN ExitOk ELSE ExitPreflightFailed
    /\ dpc' = "exited"
    /\ UNCHANGED <<dargs, dcfg, devices>>

\* cmd_dump_config: print(cfg.json_compact()); return 0
cmd_dump_config ==
    /\ UNCHANGED <<runVars, cfgVars, pipeVars, probeVars>>
    /\ dpc = "dump"
    /\ dout' = Append(dout, [kind |-> "config", ok |-> TRUE, reason |-> "",
                             device |-> dcfg.device])
    /\ dexit' = ExitOk
    /\ dpc' = "exited"
    /\ UNCHANGED <<dargs, dcfg, devices>>

DiagNext ==
    \/ diag_config
    \/ diag_config_raises
    \/ cmd_preflight_device
    \/ cmd_preflight_probe
    \/ cmd_preflight_raw
    \/ cmd_dump_config

(***************************************************************************)
(* preflight() (detect.py), one bus message at a time.                     *)
(*                                                                         *)
(* Time is counted in polling intervals: timed_pop_filtered waits at most *)
(* 500 ms, and the timeout of 5.0 s is ten of them.                       *)
(***************************************************************************)
\* timeout: float = 5.0, in intervals of 500 ms
TimeoutTicks == 10

\* What bus.timed_pop_filtered(500_000_000, ANY) returns: no message, or a
\* message of one of these kinds (STATE_CHANGED split by source and state).
Messages ==
    {"none", "ERROR", "EOS", "PIPELINE_PLAYING", "PIPELINE_PAUSED",
     "ELEMENT_PLAYING", "OTHER"}

ProbeInit ==
    /\ qpc = "call"
    /\ qmjpeg \in BOOLEAN
    /\ elapsed = 0
    /\ last = "none"
    /\ qok = FALSE
    /\ qreason = "timeout"
    /\ trial = <<>>
    /\ qres = <<>>

ProbeIdle ==
    /\ qpc = "idle"
    /\ qmjpeg = FALSE
    /\ elapsed = 0
    /\ last = "none"
    /\ qok = FALSE
    /\ qreason = "timeout"
    /\ trial = <<>>
    /\ qres = <<>>

\* Gst.parse_launch raises: return False, "parse_failed:...".
preflight_parse_failed ==
    /\ UNCHANGED <<runVars, cfgVars, pipeVars, diagVars>>
    /\ qpc = "call"
    /\ trial' = Append(trial, "none")
    /\ qres' = Append(qres, [ok |-> FALSE, reason |-> "parse_failed"])
    /\ qpc' = "returned"
    /\ UNCHANGED <<qmjpeg, elapsed, last, qok, qreason>>

\* pipeline = Gst.parse_launch(...); pipeline.set_state(PLAYING); ok = False;
\* reason = "timeout"; start = time.time()
preflight_launch ==
    /\ UNCHANGED <<runVars, cfgVars, pipeVars, diagVars>>
    /\ qpc = "call"
    /\ trial' = Append(trial, "PLAYING")
    /\ qok' = FALSE
    /\ qreason' = "timeout"
    /\ elapsed' = 0
    /\ last' = "none"
    /\ qpc' = "loop"
    /\ UNCHANGED <<qmjpeg, qres>>

\* Wall-clock time advances while the loop runs.
preflight_tick ==
    /\ UNCHANGED <<runVars, cfgVars, pipeVars, diagVars>>
    /\ qpc = "loop"
    /\ elapsed < TimeoutTicks + MaxOver
    /\ elapsed' = elapsed + 1
    /\ UNCHANGED <<qpc, qmjpeg, last, qok, qreason, trial, qres>>

\* The clock after a timed_pop_filtered that returned msg: a pop that returns
\* nothing has waited its 500 ms.
AfterPop(msg) ==
    IF msg = "none" /\ elapsed < TimeoutTicks + MaxOver THEN elapsed + 1 ELSE elapsed

\* A variant of preflight_poll without `and msg.src == pipeline`: any
\* element reaching PLAYING ends the probe.
preflight_poll_any_playing ==
    /\ UNCHANGED <<runVars, cfgVars, pipeVars, diagVars>>
    /\ qpc = "loop"
    /\ \E msg \in Messages :
         /\ last' = msg
         /\ elapsed' = AfterPop(msg)
         /\ IF msg = "ERROR"
              THEN qok' = FALSE /\ qreason' = "error" /\ qpc' = "teardown"
              ELSE IF msg = "EOS"
                THEN qok' = TRUE /\ qreason' = "eos" /\ qpc' = "teardown"
              ELSE IF msg \in {"PIPELINE_PLAYING", "ELEMENT_PLAYING"}
                THEN qok' = TRUE /\ qreason' = "playing" /\ qpc' = "teardown"
              ELSE IF AfterPop(msg) > TimeoutTicks
                THEN qok' = TRUE /\ qreason' = "assumed_ok" /\ qpc' = "teardown"
              ELSE UNCHANGED <<qok, qreason, qpc>>
    /\ UNCHANGED <<qmjpeg, trial, qres>>

\* A variant of preflight_poll that returns from the ERROR branch at once,
\* without reaching pipeline.set_state(NULL).
preflight_poll_error_returns ==
    /\ UNCHANGED <<runVars, cfgVars, pipeVars, diagVars>>
    /\ qpc = "loop"
    /\ \E msg \in Messages :
         /\ last' = msg
         /\ elapsed' = AfterPop(msg)
         /\ IF msg = "ERROR"
              THEN /\ qok' = FALSE /\ qreason' = "error" /\ qpc' = "returned"
                   /\ qres' = Append(qres, [ok |-> FALSE, reason |-> "error"])
              ELSE /\ UNCHANGED qres
                   /\ IF msg = "EOS"
                        THEN qok' = TRUE /\ qreason' = "eos" /\ qpc' = "teardown"
                      ELSE IF msg = "PIPELINE_PLAYING"
                        THEN qok' = TRUE /\ qreason' = "playing" /\ qpc' = "teardown"
                      ELSE IF AfterPop(msg) > TimeoutTicks
                        THEN qok' = TRUE /\ qreason' = "assumed_ok" /\ qpc' = "teardown"
                      ELSE UNCHANGED <<qok, qreason, qpc>>
    /\ UNCHANGED <<qmjpeg, trial>>

\* A variant of preflight_poll that checks the timeout only when the pop
\* returned no message.
preflight_poll_timeout_when_idle ==
    /\ UNCHANGED <<runVars, cfgVars, pipeVars, diagVars>>
    /\ qpc = "loop"
    /\ \E msg \in Messages :
         /\ last' = msg
         /\ elapsed' = AfterPop(msg)
         /\ IF msg = "ERROR"
              THEN qok' = FALSE /\ qreason' = "error" /\ qpc' = "teardown"
              ELSE IF msg = "EOS"
                THEN qok' = TRUE /\ qreason' = "eos" /\ qpc' = "teardown"
              ELSE IF msg = "PIPELINE_PLAYING"
                THEN qok' = TRUE /\ qreason' = "playing" /\ qpc' = "teardown"
              ELSE IF msg = "none" /\ AfterPop(msg) > TimeoutTicks
                THEN qok' = TRUE /\ qreason' = "assumed_ok" /\ qpc' = "teardown"
              ELSE UNCHANGED <<qok, qreason, qpc>>
    /\ UNCHANGED <<qmjpeg, trial, qres>>

\* One iteration of `while True`: the pop, the three terminal messages, and
\* the timeout check.
preflight_poll ==
    /\ UNCHANGED <<runVars, cfgVars, pipeVars, diagVars>>
    /\ qpc = "loop"
    /\ \E msg \in Messages :
         /\ last' = msg
         /\ elapsed' = AfterPop(msg)
         /\ IF msg = "ERROR"
              THEN qok' = FALSE /\ qreason' = "error" /\ qpc' = "teardown"
              ELSE IF msg = "EOS"
                THEN qok' = TRUE /\ qreason' = "eos" /\ qpc' = "teardown"
              ELSE IF msg = "PIPELINE_PLAYING"
                THEN qok' = TRUE /\ qreason' = "playing" /\ qpc' = "teardown"
              ELSE IF AfterPop(msg) > TimeoutTicks
                THEN qok' = TRUE /\ qreason' = "assumed_ok" /\ qpc' = "teardown"
              ELSE UNCHANGED <<qok, qreason, qpc>>
    /\ UNCHANGED <<qmjpeg, trial, qres>>

\* pipeline.set_state(Gst.State.NULL); return ok, reason
preflight_teardown ==
    /\ UNCHANGED <<runVars, cfgVars, pipeVars, diagVars>>
    /\ qpc = "teardown"
    /\ trial' = [trial EXCEPT ![Len(trial)] = "NULL"]
    /\ qres' = Append(qres, [ok |-> qok, reason |-> qreason])
    /\ qpc' = "returned"
    /\ UNCHANGED <<qmjpeg, elapsed, last, qok, qreason>>

\* cmd_run after a preflight() call: the raw retry, the abort, or on to
\* build_pipeline.
cmd_run_after_probe ==
    /\ UNCHANGED <<runVars, cfgVars, pipeVars, diagVars>>
    /\ qpc = "returned"
    /\ IF ~Last(qres).ok /\ qmjpeg
         THEN qpc' = "call" /\ qmjpeg' = FALSE
         ELSE /\ qpc' = IF Last(qres).ok THEN "build" ELSE "aborted"
              /\ UNCHANGED qmjpeg
    /\ UNCHANGED <<elapsed, last, qok, qreason, trial, qres>>

ProbeSteps ==
    \/ preflight_parse_failed
    \/ preflight_launch
    \/ preflight_poll
    \/ preflight_teardown
    \/ cmd_run_after_probe

ProbeNext ==
    \/ preflight_parse_failed
    \/ preflight_launch
    \/ preflight_tick
    \/ preflight_poll
    \/ preflight_teardown
    \/ cmd_run_after_probe

(***************************************************************************)
(* The specifications.                                                     *)
(***************************************************************************)
Init == RunInit /\ CfgIdle /\ PipeIdle /\ DiagIdle /\ ProbeIdle

Next == RunNext

\* One invocation of the CLI (run or print-pipeline).
Spec == Init /\ [][Next]_vars

\* The same, with the scheduling the runtime gives: the main thread, a
\* running signal handler and each sidecar thread keep taking their steps.
\* Nothing obliges a signal to be delivered, nor serve_forever to fail.
FairSpec ==
    /\ Spec
    /\ WF_vars(MainThread)
    /\ WF_vars(StopSteps)
    /\ \A t \in Sidecars : WF_vars(SidecarThread(t))

InitConfig == RunIdle /\ CfgInit /\ PipeIdle /\ DiagIdle /\ ProbeIdle

\* One call of build_config.
SpecConfig == InitConfig /\ [][CfgNext]_vars

InitPipeline == RunIdle /\ CfgIdle /\ PipeInit /\ DiagIdle /\ ProbeIdle

\* One call of build_pipeline.
SpecPipeline == InitPipeline /\ [][PipeNext]_vars

InitDiag == RunIdle /\ CfgIdle /\ PipeIdle /\ DiagInit /\ ProbeIdle

\* One invocation of the preflight or the dump-config command.
SpecDiag == InitDiag /\ [][DiagNext]_vars

InitProbe == RunIdle /\ CfgIdle /\ PipeIdle /\ DiagIdle /\ ProbeInit

\* The preflight block of cmd_run, one bus message at a time.
SpecProbe == InitProbe /\ [][ProbeNext]_vars

\* The same, where preflight() and its caller keep taking their steps and
\* wall-clock time advances.
FairSpecProbe ==
    /\ SpecProbe
    /\ WF_vars(ProbeSteps)
    /\ WF_vars(preflight_tick)

(***************************************************************************)
(* The claims about cmd_run and RtspServer.                                *)
(***************************************************************************)
Range(s) == {s[i] : i \in 1..Len(s)}

CodecImpliesMjpeg == cfg.codec = "jpeg" \/ cfg.codec = "auto"

\* The main thread has left the preflight block of cmd_run.
PastPreflight == pc \notin {"dispatch", "config", "device", "preflight", "preflight_raw"}

\* C1: with preflight enabled, a failed first (MJPEG-caps) probe of an
\* MJPEG-implying codec is followed by exactly one further probe, with raw
\* caps; for any other codec a failed first probe is followed by none; there
\* are at most two probes per startup, and none follows a successful first one.
C1_ProbeRetryPolicy ==
    /\ Len(probes) <= 2
    /\ Len(probes) >= 1 => cfg.preflight /\ (probes[1].mjpeg <=> CodecImpliesMjpeg)
    /\ Len(probes) = 2 => CodecImpliesMjpeg /\ ~probes[1].ok /\ ~probes[2].mjpeg
    /\ (Len(probes) >= 1 /\ ~CodecImpliesMjpeg) => Len(probes) = 1
    /\ (Len(probes) >= 1 /\ probes[1].ok) => Len(probes) = 1
    /\ (PastPreflight /\ Len(probes) >= 1 /\ ~probes[1].ok /\ CodecImpliesMjpeg)
         => Len(probes) = 2

\* A failed MJPEG probe was retried with raw caps, the retry succeeded and
\* startup went on.
C1_Witness ==
    /\ pc = "build"
    /\ Len(probes) = 2
    /\ probes[1].mjpeg /\ ~probes[1].ok
    /\ ~probes[2].mjpeg /\ probes[2].ok

\* The raw retry failed, or the first probe failed for a codec that does not
\* imply MJPEG.
FatalProbe ==
    \/ Len(probes) = 2 /\ ~probes[2].ok
    \/ Len(probes) >= 1 /\ ~probes[1].ok /\ ~CodecImpliesMjpeg

\* C2: whenever the raw retry fails, or the first probe fails for a codec
\* that does not imply MJPEG, startup aborts with exit status 2, and in that
\* run no pipeline is compiled and no listener or sidecar is started.
C2_FatalProbeAborts ==
    FatalProbe =>
        /\ pc = "exited"
        /\ exitCode = 2
        /\ ~compiled /\ "compile" \notin Range(trace)
        /\ "start" \notin Range(trace) /\ attachCount = 0 /\ loop = "none"
        /\ \A t \in Sidecars : thr[t].st = "none"

\* Both kinds of fatal probe failure occur: this one is the failed raw retry.
C2_Witness ==
    /\ Len(probes) = 2
    /\ ~probes[2].ok
    /\ exitCode = 2

\* C5: when server.attach fails, start logs an error and returns without
\* starting anything: no sidecar thread is created, whatever the ports, the
\* run-loop is never entered, and the attach is not retried.
C5_AttachFailureStartsNothing ==
    attach = "failed" =>
        /\ "error: Failed to attach RTSP server" \in log
        /\ pc \in {"start_returned", "exited"}
        /\ \A t \in Sidecars : thr[t].st = "none"
        /\ loop = "idle"
        /\ attachCount = 1

\* The attach failed with both sidecar ports configured, and the process
\* has exited.
C5_Witness ==
    /\ attach = "failed"
    /\ cfg.health_port # 0 /\ cfg.metrics_port # 0
    /\ pc = "exited"

\* The order of a startup that made n probes and started the listener.
StartupOrder(n) == <<"config", "device">> \o [i \in 1..n |-> "probe"] \o <<"compile", "start">>

\* C6: the listener is started only after configuration resolution, device
\* resolution, the preflight probes (when enabled) and pipeline compilation
\* have completed, in that order; no step runs after RtspServer.start was
\* called; with print-pipeline or dry-run set the listener is never started.
C6_StartupOrder ==
    /\ IsPrefix(trace, StartupOrder(Len(probes)))
    /\ "compile" \in Range(trace) =>
         IF cfg.preflight THEN Len(probes) >= 1 /\ Last(probes).ok ELSE Len(probes) = 0
    /\ "start" \in Range(trace) => trace = StartupOrder(Len(probes))
    /\ (loop # "none" \/ attachCount > 0 \/ \E t \in Sidecars : thr[t].st # "none")
         => "start" \in Range(trace)
    /\ (args.print_pipeline \/ args.dry_run) =>
         "start" \notin Range(trace) /\ loop = "none" /\ attachCount = 0

\* The listener runs after a startup with two probes.
C6_Witness ==
    /\ pc = "in_loop"
    /\ trace = <<"config", "device", "probe", "probe", "compile", "start">>

\* start() has returned.
StartReturned == pc \in {"start_returned", "exited"}

\* No sidecar thread is in its serve loop (none survives the process).
NoSidecarServing == pc = "exited" \/ \A t \in Sidecars : ~InServeLoop(t)

\* C3: for every interleaving of start with a stop() issued from the signal
\* handler after start has begun, start eventually returns and no sidecar
\* thread remains in its serve loop.
C3_StopTerminatesServer == stopInStart ~> (StartReturned /\ NoSidecarServing)

\* The lifecycle states of the server as the main thread's position: before
\* start, while the run-loop runs, after start returned (after a stop or an
\* attach failure).
LifecyclePcs == {"start", "in_loop", "start_returned"}

\* C4: stop() may be called any number of times and in any lifecycle state
\* (before start, while running, after a previous stop, after start returned
\* on attach failure): every call leaves the loop not running and the
\* sidecars stopped, so the state after two or more calls is the state after
\* one.
C4_StopIdempotent ==
    \A i \in 1..Len(afterStop) :
        afterStop[i].at \in LifecyclePcs =>
            ~afterStop[i].loopRunning /\ afterStop[i].live = {}

(***************************************************************************)
(* The claims about build_config and the mount path.                       *)
(***************************************************************************)
IsSet(v) == v.k # "unset"

\* The value of the highest-precedence layer that sets section/key:
\* CLI override, else environment, else INI file, else the default.
Top(sec, key) ==
    IF IsSet(cliLayer[sec][key]) THEN cliLayer[sec][key]
    ELSE IF IsSet(envLayer[sec][key]) THEN envLayer[sec][key]
    ELSE IF iniPath = "ok" /\ IsSet(iniLayer[sec][key]) THEN iniLayer[sec][key]
    ELSE DEFAULTS[sec][key]

W640 == StrV(<<"6", "4", "0">>)
W800 == StrV(<<"8", "0", "0">>)

\* C7: for every section/key the returned config holds the value (coerced to
\* the field's type; the mount path normalised) of the highest-precedence
\* layer that sets the key, defaults < INI < environment < CLI; a layer that
\* does not set a key leaves the lower layers' value.  File 640, env 800 and
\* CLI 1024 give 1024; file 640 and env 800 give 800.
C7_LayerPrecedence ==
    bpc = "done" =>
        /\ resolved.camera.width = IntOf(Top("camera", "width"))
        /\ resolved.camera.framerate = IntOf(Top("camera", "framerate"))
        /\ resolved.rtsp.mount_path = NormalizeMountPath(Top("rtsp", "mount_path").s)
        /\ (iniLayer.camera.width = W640 /\ envLayer.camera.width = W800
              /\ cliLayer.camera.width = IntV(1024))
             => resolved.camera.width = 1024
        /\ (iniLayer.camera.width = W640 /\ envLayer.camera.width = W800
              /\ ~IsSet(cliLayer.camera.width))
             => resolved.camera.width = 800

\* All three layers set the width, the environment alone the mount path and
\* the CLI alone the framerate.
C7_Witness ==
    /\ bpc = "done"
    /\ iniLayer.camera.width = W640
    /\ envLayer.camera.width = W800
    /\ cliLayer.camera.width = IntV(1024)
    /\ resolved.camera.width = 1024
    /\ IsSet(envLayer.rtsp.mount_path) /\ ~IsSet(cliLayer.rtsp.mount_path)
    /\ ~IsSet(iniLayer.camera.framerate) /\ cliLayer.camera.framerate = IntV(60)
    /\ resolved.camera.framerate = 60

OnlySlashes(x) == \A i \in 1..Len(x) : x[i] = "/"

\* C8: for every mount_path a layer supplies, the resolved rtsp.mount_path
\* begins with exactly one '/', does not end with '/', and is '/stream' when
\* nothing remains after trimming.
C8_MountPathShape ==
    bpc = "done" =>
        LET mp == resolved.rtsp.mount_path
        IN  /\ Len(mp) >= 1 /\ mp[1] = "/"
            /\ Len(mp) >= 2 => mp[2] # "/"
            /\ Last(mp) # "/"
            /\ OnlySlashes(Top("rtsp", "mount_path").s) => mp = StreamPath

\* C9: mount-path normalisation is idempotent, normalize("") = "/stream" and
\* normalize("foo/") = "/foo".
C9_NormalizeIdempotent ==
    bpc = "done" =>
        LET x == Top("rtsp", "mount_path").s
            mp == resolved.rtsp.mount_path
        IN  /\ NormalizeMountPath(mp) = mp
            /\ x = <<>> => mp = StreamPath
            /\ x = <<"f", "o", "o", "/">> => mp = <<"/", "f", "o", "o">>

\* normalize("foo/") was computed.
C9_Witness ==
    /\ bpc = "done"
    /\ cliLayer.rtsp.mount_path = StrV(<<"f", "o", "o", "/">>)
    /\ resolved.rtsp.mount_path = <<"/", "f", "o", "o">>

(***************************************************************************)
(* The claims about the bitrate.                                           *)
(***************************************************************************)
\* C10 as stated: for all inputs the bitrate build_pipeline resolves lies in
\* [300, 25000].
C10_BitrateInRange == ppc = "bitrate" => (300 <= bitrate /\ bitrate <= 25000)

\* C10, amended: with no explicit bitrate (bitrate_kbps = 0) the resolved
\* bitrate lies in [300, 25000].
C10_AutoBitrateInRange ==
    (ppc = "bitrate" /\ enc.bitrate_kbps = 0) => (300 <= bitrate /\ bitrate <= 25000)

\* The formula branch was clamped at the upper end.
C10_Witness ==
    /\ ppc = "bitrate"
    /\ enc.bitrate_kbps = 0
    /\ ~InBitrateMap(enc.width, enc.height)
    /\ enc.width # 0 /\ enc.height # 0
    /\ enc.framerate > 30
    /\ auto_bitrate_unclamped(enc.width, enc.height, enc.framerate, enc.factor) > MaxKbps
    /\ bitrate = MaxKbps

\* The inputs that fall through to the formula branch: no explicit bitrate,
\* width, height and framerate known, (width, height) not tabled.
FormulaBranch(e) ==
    /\ e.bitrate_kbps = 0
    /\ e.width > 0 /\ e.height > 0 /\ e.framerate > 0
    /\ <<e.width, e.height>> \notin
         {<<640, 480>>, <<800, 600>>, <<1280, 720>>, <<1920, 1080>>, <<2560, 1440>>}

PixelRate(e) == e.width * e.height * e.framerate

\* C11: in the formula branch the estimate is monotonically non-decreasing in
\* width*height*framerate: an input with a pixel rate at least that of the
\* one just resolved, and the same factor, gets at least its bitrate.
C11_FormulaMonotone ==
    (ppc = "bitrate" /\ FormulaBranch(enc)) =>
        \A w \in Widths, h \in Heights, f \in Framerates :
            LET e2 == [enc EXCEPT !.width = w, !.height = h, !.framerate = f]
            IN  (FormulaBranch(e2) /\ PixelRate(enc) <= PixelRate(e2))
                    => bitrate <= ResolveBitrate(e2)

\* The five tabled resolutions with their kbps.
TabledKbps(width, height) ==
    CASE <<width, height>> = <<640, 480>> -> 1000
      [] <<width, height>> = <<800, 600>> -> 1300
      [] <<width, height>> = <<1280, 720>> -> 2200
      [] <<width, height>> = <<1920, 1080>> -> 4500
      [] <<width, height>> = <<2560, 1440>> -> 8000
      [] OTHER -> -1

\* C12 as stated: for a tabled (width, height), a framerate <= 30 (0
\* included), no explicit bitrate and either value of auto_bitrate, the
\* resolved bitrate is the tabled value.
C12_TabledValues ==
    (ppc = "bitrate" /\ enc.bitrate_kbps = 0 /\ TabledKbps(enc.width, enc.height) # -1
        /\ enc.framerate <= 30)
    => bitrate = TabledKbps(enc.width, enc.height)

\* C12, amended: the same, when auto_bitrate is on or the framerate is known
\* (nonzero).
C12_TabledValuesWhenEstimated ==
    (ppc = "bitrate" /\ enc.bitrate_kbps = 0 /\ TabledKbps(enc.width, enc.height) # -1
        /\ enc.framerate <= 30 /\ (enc.auto_bitrate \/ enc.framerate # 0))
    => bitrate = TabledKbps(enc.width, enc.height)

\* A tabled resolution with framerate unknown and auto_bitrate on, and one
\* with auto_bitrate off and the framerate known.
C12_Witness ==
    /\ ppc = "bitrate"
    /\ enc.bitrate_kbps = 0
    /\ \/ enc.width = 1280 /\ enc.height = 720 /\ enc.framerate = 0
          /\ enc.auto_bitrate /\ bitrate = 2200
       \/ enc.width = 2560 /\ enc.height = 1440 /\ enc.framerate = 30
          /\ ~enc.auto_bitrate /\ bitrate = 8000

\* C13: a nonzero bitrate_kbps is the resolved bitrate, verbatim; with
\* bitrate_kbps 0, auto_bitrate off and one of width, height, framerate
\* unknown the resolved bitrate is 2000.
C13_ExplicitVerbatim ==
    ppc = "bitrate" =>
        /\ enc.bitrate_kbps # 0 => bitrate = enc.bitrate_kbps
        /\ (enc.bitrate_kbps = 0 /\ ~enc.auto_bitrate
              /\ (enc.width = 0 \/ enc.height = 0 \/ enc.framerate = 0))
           => bitrate = 2000

\* An explicit bitrate above the clamp, on a tabled resolution at 60 fps.
C13_Witness ==
    /\ ppc = "bitrate"
    /\ enc.bitrate_kbps = 50000
    /\ enc.width = 1920 /\ enc.height = 1080 /\ enc.framerate = 60
    /\ bitrate = 50000

(***************************************************************************)
(* The claims about the encoder selection.                                 *)
(***************************************************************************)
\* The candidates of the current hardware_priority that are installed.
AvailableAt == {i \in 1..Len(Candidates(sel.priority)) : Candidates(sel.priority)[i] \in sel.caps}

\* C14: for codec 'auto' the first installed candidate of the ordered list is
\* chosen as Hardware, else Software if x264enc is installed, else
\* Passthrough; nothing installed gives Passthrough (rtpjpegpay, no encoder),
\* and a single installed hardware candidate is chosen over software.
C14_EncoderSelection ==
    (ppc = "done" /\ sel.codec = "auto") =>
        /\ \A i \in AvailableAt :
              (\A j \in AvailableAt : i <= j) =>
                  /\ result.mode = "Hardware"
                  /\ result.encoder = Candidates(sel.priority)[i]
        /\ (AvailableAt = {} /\ "x264enc" \in sel.caps) =>
              (result.mode = "Software" /\ result.encoder = "x264enc")
        /\ (AvailableAt = {} /\ "x264enc" \notin sel.caps) => result.mode = "Passthrough"
        /\ sel.caps = {} =>
              (result.mode = "Passthrough" /\ result.pay = "rtpjpegpay"
                 /\ result.encoder = None)
        /\ \A c \in sel.caps \ {"x264enc"} :
              (sel.priority = <<"auto">> /\ sel.caps \subseteq {c, "x264enc"}) =>
                  (result.mode = "Hardware" /\ result.encoder = c)

\* A user list whose second item is the first one installed, with the
\* software encoder installed too.
C14_Witness ==
    /\ ppc = "done"
    /\ sel.codec = "auto"
    /\ sel.priority = <<"nvh264enc", " QSVH264ENC">>
    /\ sel.caps = {"qsvh264enc", "v4l2h264enc", "x264enc"}
    /\ result.mode = "Hardware"
    /\ result.encoder = "qsvh264enc"

\* C15: for codec 'auto', 'h264' or 'jpeg' and every set of installed
\* elements, the encoder the pipeline names, if any, is installed, and with
\* neither a hardware candidate nor x264enc installed the pipeline is the
\* Passthrough one.
C15_EncoderUnavailableDegrades ==
    (ppc = "done" /\ sel.codec \in {"auto", "h264", "jpeg"}) =>
        /\ result.encoder # None => result.encoder \in sel.caps
        /\ (AvailableAt = {} /\ "x264enc" \notin sel.caps) => result.mode = "Passthrough"

(***************************************************************************)
(* The claims about print-pipeline and the use of the preflight outcome.   *)
(***************************************************************************)
\* C16: the print-pipeline command, once its configuration is resolved, ends
\* with the pipeline description printed and exit status 0, no listener
\* started, whatever the configuration and the preflight outcome.
C16_PrintPipelineExitsZero ==
    (args.cmd = "print-pipeline" /\ pc = "exited" /\ trace # <<>>) =>
        /\ printed
        /\ exitCode = 0
        /\ loop = "none" /\ attach = "none"

\* C20: a pipeline compiled after the MJPEG probe failed and the raw retry
\* succeeded does not request image/jpeg from the device.
C20_PreflightFeedsPipeline ==
    (compiled /\ Len(probes) = 2 /\ probes[1].mjpeg /\ ~probes[1].ok /\ probes[2].ok)
        => pipeline.source # "image/jpeg"

(***************************************************************************)
(* The claims about the diagnostic commands and auto_select.               *)
(***************************************************************************)
\* C17: the preflight command prints {ok, reason, device}, exits 0 exactly
\* when that object has ok = true and 2 otherwise; for a device that does
\* not exist the object has ok = false, its reason begins with error: or
\* parse_failed:, and the exit status is 2.
C17_PreflightExitMatchesOutput ==
    (dargs.cmd = "preflight" /\ dpc = "exited" /\ dout # <<>>) =>
        /\ dout[1].kind = "preflight"
        /\ dexit = (IF dout[1].ok THEN 0 ELSE 2)
        /\ dout[1].device \notin Reachable =>
              (~dout[1].ok /\ dout[1].reason \in {"error", "parse_failed"} /\ dexit = 2)

\* C18: preflight and dump-config end with structured output and an exit
\* status, never with an uncaught exception, whatever the config file path
\* and the configured values are.
C18_DiagnosticsNeverCrash ==
    dpc = "exited" => (dexit # ExitException /\ dout # <<>>)

\* C19: auto_select returns a configured value other than the literal "auto"
\* unchanged, and for "auto" the first enumerated device, or /dev/video0
\* when none is found.
C19_AutoSelectLiteral ==
    dpc \in {"probe", "probe_raw"} =>
        /\ dcfg.configured # "auto" => dcfg.device = dcfg.configured
        /\ dcfg.configured = "auto" =>
              dcfg.device = (IF devices = <<>> THEN "/dev/video0" ELSE devices[1])

(***************************************************************************)
(* The claims about the preflight probe.                                   *)
(***************************************************************************)
TerminalMessages == {"ERROR", "EOS", "PIPELINE_PLAYING"}

C22_TrialTornDown ==
    qpc \in {"returned", "call", "build", "aborted"} =>
        \A i \in 1..Len(trial) : trial[i] \in {"NULL", "none"}

\* Two probes were launched, the first ended by an ERROR, and both are NULL.
C22_Witness ==
    /\ qpc = "build"
    /\ Len(trial) = 2
    /\ qres[1].reason = "error"
    /\ trial = <<"NULL", "NULL">>

\* C23: a launched probe eventually returns; its loop is left only on a
\* terminal message or with the budget elapsed, and an iteration that begins
\* with the budget elapsed is the last one.
C23_ProbeReturns ==
    /\ [][(qpc = "loop" /\ qpc' # "loop") =>
             (qpc' = "teardown" /\ (last' \in TerminalMessages \/ elapsed' > 10))]_vars
    /\ [][(qpc = "loop" /\ elapsed > 10 /\ elapsed' = elapsed) => qpc' = "teardown"]_vars
    /\ (qpc = "loop") ~> (qpc = "returned")

\* A probe ended by the timeout after a non-terminal message, and returned.
C23_Witness ==
    /\ qpc = "returned"
    /\ last = "OTHER"
    /\ elapsed > 10
    /\ Last(qres) = [ok |-> TRUE, reason |-> "assumed_ok"]

(***************************************************************************)
(* The claim about sidecar failures.                                       *)
(***************************************************************************)
SidecarFailed(st) == st \in {"bind_failed", "serve_failed"}

SidecarPort(t) == IF t = "health" THEN cfg.health_port ELSE cfg.metrics_port

\* C25: a sidecar thread exists only for a nonzero port; a sidecar that
\* fails to bind or to serve has logged the error, and its failing changes
\* neither the main thread's position, nor the loop, nor the handler, nor
\* the other sidecar; the run-loop can still be entered, and a run whose
\* handler was installed never ends with an exception.
C25_SidecarFailureConfined ==
    /\ [](\A t \in Sidecars :
            /\ thr[t].st # "none" => SidecarPort(t) # 0
            /\ SidecarFailed(thr[t].st) => "error: HTTP thread failed" \in log)
    /\ []((pc = "loop_run" /\ hpc = "idle") => ENABLED start_loop_run)
    /\ [](handlerSet => exitCode \in {-1, 0})
    /\ [][\A t \in Sidecars :
            (~SidecarFailed(thr[t].st) /\ SidecarFailed(thr'[t].st)) =>
                /\ pc' = pc /\ loop' = loop /\ hpc' = hpc
                /\ \A u \in Sidecars \ {t} : thr'[u] = thr[u]]_vars

\* The health sidecar failed to bind; the loop runs and the metrics sidecar
\* serves.
C25_Witness ==
    /\ thr["health"].st = "bind_failed"
    /\ thr["metrics"].st = "serving"
    /\ pc = "in_loop"
    /\ loop = "running"

(***************************************************************************)
(* The claims about the compiled pipeline description.                     *)
(***************************************************************************)
BitratePropsAt == {i \in 1..Len(result.props) : result.props[i].k \in {"bitrate", "target-bitrate"}}

\* The static tuning properties, by encoder name.
StaticPropNames(encoder) ==
    CASE encoder = "v4l2h264enc" -> <<"insert-sps-pps">>
      [] encoder \in {"vaapih264enc", "qsvh264enc"} -> <<"rate-control">>
      [] encoder = "nvh264enc" -> <<"preset">>
      [] OTHER -> <<>>

\* C24: a Hardware pipeline carries at most one bitrate property: bitrate in
\* kbps if the encoder exposes 'bitrate', else target-bitrate in bits per
\* second if it exposes 'target-bitrate', else none, with a warning; the
\* encoder's static properties are all present and come first.
C24_HardwareBitrateProperty ==
    (ppc = "done" /\ result.mode = "Hardware") =>
        LET static == StaticPropNames(result.encoder)
        IN  /\ Cardinality(BitratePropsAt) <= 1
            /\ Len(result.props) = Len(static) + Cardinality(BitratePropsAt)
            /\ \A i \in 1..Len(static) : result.props[i].k = static[i]
            /\ \A i \in BitratePropsAt : i = Len(static) + 1
            /\ "bitrate" \in sel.props =>
                  \E i \in BitratePropsAt :
                      result.props[i].k = "bitrate" /\ result.props[i].n = bitrate
            /\ ("bitrate" \notin sel.props /\ "target-bitrate" \in sel.props) =>
                  \E i \in BitratePropsAt :
                      /\ result.props[i].k = "target-bitrate"
                      /\ result.props[i].n = bitrate * 1000
            /\ (sel.props \cap {"bitrate", "target-bitrate"} = {}) =>
                  (BitratePropsAt = {} /\ result.warned)
            /\ BitratePropsAt # {} => ~result.warned

\* nvh264enc exposing both properties: its preset, then bitrate in kbps.
C24_Witness ==
    /\ ppc = "done"
    /\ result.encoder = "nvh264enc"
    /\ sel.props = {"bitrate", "target-bitrate"}
    /\ Len(result.props) = 2
    /\ result.props[1].k = "preset"
    /\ result.props[2].k = "bitrate" /\ result.props[2].n = 2000

Encoders == Elements

Payloaders == {"rtpjpegpay name=pay0", "rtph264pay name=pay0"}

QueuesAt == {i \in 1..Len(result.stages) : result.stages[i] = "queue leaky=downstream max-size-buffers=1"}

\* What every returned description has: one of the three shapes, the
\* v4l2src of the configured device first, one leaky depth-1 queue before
\* every encoder and payloader, one payloader pay0 last.
ShapeCommon ==
    /\ result.mode \in {"Passthrough", "Hardware", "Software"}
    /\ result.mode = "Passthrough" <=>
          (\A i \in 1..Len(result.stages) : result.stages[i] \notin Encoders)
    /\ result.mode = "Software" <=>
          (\E i \in 1..Len(result.stages) : result.stages[i] = "video/x-h264")
    /\ result.stages[1] = "v4l2src" /\ result.device = sel.device
    /\ result.stages[2] \in {"image/jpeg", "video/x-raw"}
    /\ Cardinality(QueuesAt) = 1
    /\ \A q \in QueuesAt : \A i \in 1..Len(result.stages) :
          result.stages[i] \in Encoders \cup Payloaders => q < i
    /\ result.stages[Len(result.stages)] \in Payloaders
    /\ Cardinality({i \in 1..Len(result.stages) : result.stages[i] \in Payloaders}) = 1

\* C26 as stated: the queue is immediately downstream of the source and its
\* capability filter.
C26_PipelineShape ==
    ppc = "done" => (ShapeCommon /\ QueuesAt = {3})

\* C26, amended: between the capability filter and the queue there is
\* nothing, or, in the Hardware and Software shapes without prefer_raw, the
\* decode chain jpegdec, videoconvert.
C26_PipelineShapeAfterDecode ==
    ppc = "done" =>
        /\ ShapeCommon
        /\ \A q \in QueuesAt :
              IF result.mode # "Passthrough" /\ ~sel.prefer_raw
                THEN q = 5 /\ result.stages[3] = "jpegdec" /\ result.stages[4] = "videoconvert"
                ELSE q = 3

\* A Software description with the decode chain before the queue.
C26_Witness ==
    /\ ppc = "done"
    /\ sel.device = "/dev/video1"
    /\ result.stages = <<"v4l2src", "image/jpeg", "jpegdec", "videoconvert",
                         "queue leaky=downstream max-size-buffers=1", "x264enc",
                         "video/x-h264", "h264parse", "rtph264pay name=pay0">>

====
